---- MODULE Spec2Model ----
(***************************************************************************)
(* MncraftCore License API: the extended variant (src/server.js:247-544)    *)
(* and the simple variant (src/server.js:1-245), two programs with separate *)
(* tables.                                                                 *)
(*                                                                         *)
(* Every `await pool.query(...)` is one statement executed atomically by   *)
(* PostgreSQL; between two awaits of one handler the statements of other   *)
(* requests may run.  One action of this module is therefore one SQL       *)
(* statement together with the synchronous JavaScript that follows it up   *)
(* to the next await (or to the response).  The first action of a handler  *)
(* also contains the synchronous prefix of the handler.                    *)
(*                                                                         *)
(* Tables are sets of rows (the SERIAL id columns, created_at and email    *)
(* are never read by a decision of the code and are left out);             *)
(* license_logs is a bag of rows.  The eight metadata columns written by   *)
(* the upsert are one field `meta`.                                        *)
(***************************************************************************)
EXTENDS Integers, FiniteSets, Bags, TLC

\* ------------------------------------------------------------------ bounds
MaxRequests == 4        \* requests received in one behaviour
MaxTime == 1            \* the clock runs over 0..MaxTime
MaxServerId == 2        \* the installations are 1..MaxServerId

Slots == {1, 2}         \* requests that can be in flight together
Keys == {"K1"}
ServerIds == 1..MaxServerId
Metas == {"m1", "m2"}
Owners == {"alice"}
Reasons == {"abuse"}
Secrets == {"secret", "wrong"}

\* undefined / null / "" of JavaScript and NULL of SQL, for string values
Null == "<null>"
\* a server_id that is absent or empty
NoServer == 0
\* an optional number or timestamp is {} (null) or {v}
NullT == {}
Val(x) == CHOOSE v \in x : TRUE

OptKeys == Keys \cup {Null}
OptServerIds == ServerIds \cup {NoServer}
ExpiresInputs == {NullT} \cup {{t} : t \in 0..(MaxTime - 1)}
MaxServersInputs == {NullT, {0 - 1}, {0}, {MaxServerId - 1}}

VARIABLES
    ADMIN_KEY,        \* process.env.ADMIN_KEY, read at every admin request
    now,              \* the clock (new Date(), CURRENT_TIMESTAMP, NOW())
    licenses,         \* table licenses
    license_servers,  \* table license_servers
    license_logs,     \* table license_logs
    simpleLicenses,   \* table licenses of the simple variant (src/server.js:1-245)
    req,              \* per slot: the request being handled and its locals
    response,         \* the request answered last, and its answer
    nreq              \* number of requests received so far

vars == <<ADMIN_KEY, now, licenses, license_servers, license_logs, simpleLicenses,
          req, response, nreq>>
db == <<licenses, license_servers, license_logs>>

\* ------------------------------------------------------------ JavaScript
\* !x, x || y on the values the model uses
Falsy(x) == x = Null
OrElse(x, d) == IF Falsy(x) THEN d ELSE x
\* max_servers || 1
FalsyNum(x) == x = NullT \/ x = {0}
OrElseNum(x, d) == IF FalsyNum(x) THEN d ELSE Val(x)

NoBody == [none |-> TRUE]
NoRow == [none |-> TRUE]
\* the exchange seen by the client that was answered last: the operation, the
\* fields of the request that identify its target, the x-admin-key header, the
\* status code and the JSON body of the answer
NoResponse == [op |-> "none", request |-> NoBody, adminKey |-> Null,
               code |-> 0, body |-> NoBody]
Target(op, body) ==
    CASE op = "validate" -> [license_key |-> body.license_key, server_id |-> body.server_id]
      [] op = "create" -> [license_key |-> body.license_key, owner |-> body.owner]
      [] op \in {"list", "generate-key", "licenses"} -> NoBody
      [] OTHER -> [license_key |-> body.license_key]
\* body: req.body; adminKey: req.headers['x-admin-key']; license, serverCount,
\* existingServer: the handler's locals of the same names
Idle == [op |-> "none", pc |-> "idle", body |-> NoBody, adminKey |-> Null,
         license |-> NoRow, serverCount |-> 0, existingServer |-> FALSE]

\* res.status(code).json(body) of a handler that has awaited: the handler is over
Respond(r, code, body) ==
    /\ req' = [req EXCEPT ![r] = Idle]
    /\ response' = [op |-> req[r].op, request |-> Target(req[r].op, req[r].body),
                    adminKey |-> req[r].adminKey, code |-> code, body |-> body]

\* res.status(code).json(body) in the first step of a handler
Answer(op, request, adminKey, code, body) ==
    /\ response' = [op |-> op, request |-> Target(op, request), adminKey |-> adminKey,
                    code |-> code, body |-> body]
    /\ UNCHANGED req

\* a request arrives: it takes the first free slot (slots are interchangeable)
Free(r) ==
    /\ nreq < MaxRequests
    /\ req[r].pc = "idle"
    /\ \A q \in Slots : q < r => req[q].pc # "idle"

\* ------------------------------------------------------------------- SQL
\* SELECT * FROM licenses WHERE license_key = $1
SelectLicense(k) == {l \in licenses : l.license_key = k}

\* SELECT COUNT(*) FROM license_servers WHERE license_key = $1
CountServers(k) == Cardinality({s \in license_servers : s.license_key = k})

\* SELECT * FROM license_servers WHERE license_key = $1 AND server_id = $2
SelectServer(k, sid) ==
    {s \in license_servers : s.license_key = k /\ s.server_id = sid}

\* faulty variant: a plain INSERT, without the ON CONFLICT clause and the UNIQUE constraint
InsertServer(k, sid, meta) ==
    license_servers \cup
        {[license_key |-> k, server_id |-> sid, meta |-> meta, last_seen |-> now]}

\* INSERT INTO license_servers ... ON CONFLICT (license_key, server_id)
\* DO UPDATE SET <metadata>, last_seen = CURRENT_TIMESTAMP
UpsertServer(k, sid, meta) ==
    IF SelectServer(k, sid) # {}
    THEN {IF s.license_key = k /\ s.server_id = sid
          THEN [s EXCEPT !.meta = meta, !.last_seen = now]
          ELSE s : s \in license_servers}
    ELSE license_servers \cup
         {[license_key |-> k, server_id |-> sid, meta |-> meta, last_seen |-> now]}

\* UPDATE licenses SET status = $1 WHERE license_key = $2
UpdateStatus(k, status) ==
    {IF l.license_key = k THEN [l EXCEPT !.status = status] ELSE l : l \in licenses}

\* UPDATE licenses SET last_check = CURRENT_TIMESTAMP WHERE license_key = $1
UpdateLastCheck(k) ==
    {IF l.license_key = k THEN [l EXCEPT !.last_check = {now}] ELSE l : l \in licenses}

\* faulty variant: an upsert, which stores a DISABLED record for a key that has none
UpdateDisabledUpsert(k, reason) ==
    IF \E l \in licenses : l.license_key = k
    THEN {IF l.license_key = k THEN [l EXCEPT !.status = "DISABLED", !.reason = reason]
          ELSE l : l \in licenses}
    ELSE licenses \cup {[license_key |-> k, owner |-> Null, status |-> "DISABLED",
                         expires_at |-> NullT, max_servers |-> 1,
                         last_check |-> NullT, reason |-> reason]}

\* UPDATE licenses SET status = $1, reason = $2 WHERE license_key = $3
UpdateDisabled(k, reason) ==
    {IF l.license_key = k THEN [l EXCEPT !.status = "DISABLED", !.reason = reason]
     ELSE l : l \in licenses}

\* logAction: INSERT INTO license_logs (license_key, action, details)
\* details is a template text and the value interpolated into it: a string
\* (Null if none) or a server_id (NoServer if none)
logAction(licenseKey, action, text, arg, sid) ==
    license_logs' = license_logs (+)
        SetToBag({[license_key |-> licenseKey, action |-> action,
                   details |-> [text |-> text, arg |-> arg, server_id |-> sid]]})

\* ------------------------------------------------- POST /api/license/validate
\* faulty variant: only an EXPIRED status is rejected
NotActiveOnlyExpired(license) == license.status = "EXPIRED"

\* license.status !== 'ACTIVE'
NotActive(license) == license.status # "ACTIVE"

\* license.expires_at && new Date(license.expires_at) < new Date()
IsExpired(license) == license.expires_at # NullT /\ Val(license.expires_at) < now

\* faulty variant: no capacity check at all
LimitNeverExceeded(existing, count, max_servers) == FALSE

\* faulty variant: the capacity comparison off by one
LimitExceededOffByOne(existing, count, max_servers) == ~existing /\ count > max_servers

\* faulty variant: the test on existingServer inverted (!== 0)
LimitExceededForBound(existing, count, max_servers) == existing /\ count >= max_servers

\* existingServer.rows.length === 0 && parseInt(count) >= license.max_servers
LimitExceeded(existing, count, max_servers) == ~existing /\ count >= max_servers

ValidateBodies ==
    [license_key : OptKeys, server_id : OptServerIds, meta : Metas]

\* const license = licenseResult.rows[0]: the columns the handler reads
LicenseRead(l) ==
    [status |-> l.status, reason |-> l.reason, owner |-> l.owner,
     expires_at |-> l.expires_at, max_servers |-> l.max_servers]

\* the request arrives; the required fields are checked; the license is read
ValidateLookup(r) ==
    /\ Free(r)
    /\ \E body \in ValidateBodies :
        LET found == SelectLicense(body.license_key)
            license == LicenseRead(CHOOSE l \in found : TRUE)
            started == [Idle EXCEPT !.op = "validate", !.body = body]
        IN  IF Falsy(body.license_key) \/ body.server_id = NoServer
            THEN Answer("validate", body, Null, 400,
                        [valid |-> FALSE, error |-> "Brak wymaganych danych"])
            ELSE /\ UNCHANGED response
                 /\ req' = [req EXCEPT ![r] =
                        IF found = {}
                        THEN [started EXCEPT !.pc = "logNotFound"]
                        ELSE IF NotActive(license)
                        THEN [started EXCEPT !.pc = "logInactive", !.license = license]
                        ELSE IF IsExpired(license)
                        THEN [started EXCEPT !.pc = "updateExpired", !.license = license]
                        ELSE [started EXCEPT !.pc = "count", !.license = license]]
    /\ nreq' = nreq + 1
    /\ UNCHANGED <<ADMIN_KEY, simpleLicenses, now, licenses, license_servers, license_logs>>

\* faulty variant: the not-found answer sent without its status code
ValidateLogNotFoundNoStatus(r) ==
    /\ req[r].pc = "logNotFound"
    /\ logAction(req[r].body.license_key, "VALIDATE_FAILED", "Licencja nie znaleziona",
                 Null, NoServer)
    /\ Respond(r, 200, [valid |-> FALSE, error |-> "Licencja nie znaleziona"])
    /\ UNCHANGED <<ADMIN_KEY, simpleLicenses, now, licenses, license_servers, nreq>>

ValidateLogNotFound(r) ==
    /\ req[r].pc = "logNotFound"
    /\ logAction(req[r].body.license_key, "VALIDATE_FAILED", "Licencja nie znaleziona", Null, NoServer)
    /\ Respond(r, 404, [valid |-> FALSE, error |-> "Licencja nie znaleziona"])
    /\ UNCHANGED <<ADMIN_KEY, simpleLicenses, now, licenses, license_servers, nreq>>

ValidateLogInactive(r) ==
    /\ req[r].pc = "logInactive"
    /\ logAction(req[r].body.license_key, "VALIDATE_FAILED",
                 "Status: ", req[r].license.status, NoServer)
    /\ Respond(r, 403, [valid |-> FALSE, active |-> FALSE,
                        status |-> req[r].license.status,
                        reason |-> OrElse(req[r].license.reason, "Licencja nieaktywna")])
    /\ UNCHANGED <<ADMIN_KEY, simpleLicenses, now, licenses, license_servers, nreq>>

ValidateUpdateExpired(r) ==
    /\ req[r].pc = "updateExpired"
    /\ licenses' = UpdateStatus(req[r].body.license_key, "EXPIRED")
    /\ req' = [req EXCEPT ![r].pc = "logExpired"]
    /\ UNCHANGED <<ADMIN_KEY, simpleLicenses, now, license_servers, license_logs, response, nreq>>

ValidateLogExpired(r) ==
    /\ req[r].pc = "logExpired"
    /\ logAction(req[r].body.license_key, "VALIDATE_FAILED", "Licencja wygasla", Null, NoServer)
    /\ Respond(r, 403, [valid |-> FALSE, error |-> "Licencja wygasla"])
    /\ UNCHANGED <<ADMIN_KEY, simpleLicenses, now, licenses, license_servers, nreq>>

ValidateCount(r) ==
    /\ req[r].pc = "count"
    /\ req' = [req EXCEPT ![r].serverCount = CountServers(req[r].body.license_key),
                          ![r].pc = "existing"]
    /\ UNCHANGED <<ADMIN_KEY, simpleLicenses, now, licenses, license_servers, license_logs, response, nreq>>

ValidateExisting(r) ==
    /\ req[r].pc = "existing"
    /\ LET existing == SelectServer(req[r].body.license_key, req[r].body.server_id) # {}
       IN  req' = [req EXCEPT ![r].existingServer = existing,
                              ![r].pc = IF LimitExceeded(existing, req[r].serverCount,
                                                         req[r].license.max_servers)
                                        THEN "logLimit" ELSE "upsert"]
    /\ UNCHANGED <<ADMIN_KEY, simpleLicenses, now, licenses, license_servers, license_logs, response, nreq>>

ValidateLogLimit(r) ==
    /\ req[r].pc = "logLimit"
    /\ logAction(req[r].body.license_key, "VALIDATE_FAILED", "Przekroczony limit serverow", Null, NoServer)
    /\ Respond(r, 403, [valid |-> FALSE, error |-> "Przekroczony limit serverow"])
    /\ UNCHANGED <<ADMIN_KEY, simpleLicenses, now, licenses, license_servers, nreq>>

ValidateUpsert(r) ==
    /\ req[r].pc = "upsert"
    /\ license_servers' = UpsertServer(req[r].body.license_key, req[r].body.server_id,
                                       req[r].body.meta)
    /\ req' = [req EXCEPT ![r].pc = "lastCheck"]
    /\ UNCHANGED <<ADMIN_KEY, simpleLicenses, now, licenses, license_logs, response, nreq>>

ValidateLastCheck(r) ==
    /\ req[r].pc = "lastCheck"
    /\ licenses' = UpdateLastCheck(req[r].body.license_key)
    /\ req' = [req EXCEPT ![r].pc = "logSuccess"]
    /\ UNCHANGED <<ADMIN_KEY, simpleLicenses, now, license_servers, license_logs, response, nreq>>

ValidateLogSuccess(r) ==
    /\ req[r].pc = "logSuccess"
    /\ logAction(req[r].body.license_key, "VALIDATE_SUCCESS",
                 "Server: ", Null, req[r].body.server_id)
    /\ Respond(r, 200, [valid |-> TRUE, active |-> TRUE,
                        status |-> req[r].license.status,
                        owner |-> req[r].license.owner,
                        expires |-> req[r].license.expires_at])
    /\ UNCHANGED <<ADMIN_KEY, simpleLicenses, now, licenses, license_servers, nreq>>

\* ---------------------------------------------------- POST /api/license/check
CheckBodies == [license_key : OptKeys]

\* status === 'ACTIVE' && (!expires_at || new Date(expires_at) > new Date())
CheckActive(license) ==
    license.status = "ACTIVE"
        /\ (license.expires_at = NullT \/ Val(license.expires_at) > now)

\* faulty variant: check persists EXPIRED for a license whose expires_at has
\* passed, as validate does
CheckRequestExpiring(r) ==
    /\ Free(r)
    /\ \E body \in CheckBodies :
        LET found == SelectLicense(body.license_key)
            license == CHOOSE l \in found : TRUE
        IN  IF Falsy(body.license_key)
            THEN /\ Answer("check", body, Null, 400, [error |-> "Brak klucza licencji"])
                 /\ UNCHANGED licenses
            ELSE IF found = {}
            THEN /\ Answer("check", body, Null, 404, [error |-> "Licencja nie znaleziona"])
                 /\ UNCHANGED licenses
            ELSE /\ Answer("check", body, Null, 200,
                           [active |-> CheckActive(license),
                            status |-> license.status,
                            reason |-> OrElse(license.reason, ""),
                            expires |-> license.expires_at])
                 /\ licenses' = IF license.status = "ACTIVE" /\ IsExpired(license)
                                THEN UpdateStatus(body.license_key, "EXPIRED")
                                ELSE licenses
    /\ nreq' = nreq + 1
    /\ UNCHANGED <<ADMIN_KEY, simpleLicenses, now, license_servers, license_logs>>

CheckRequest(r) ==
    /\ Free(r)
    /\ \E body \in CheckBodies :
        LET found == SelectLicense(body.license_key)
            license == CHOOSE l \in found : TRUE
        IN  IF Falsy(body.license_key)
            THEN Answer("check", body, Null, 400, [error |-> "Brak klucza licencji"])
            ELSE IF found = {}
            THEN Answer("check", body, Null, 404, [error |-> "Licencja nie znaleziona"])
            ELSE Answer("check", body, Null, 200,
                        [active |-> CheckActive(license),
                         status |-> license.status,
                         reason |-> OrElse(license.reason, ""),
                         expires |-> license.expires_at])
    /\ nreq' = nreq + 1
    /\ UNCHANGED <<ADMIN_KEY, simpleLicenses, now, licenses, license_servers, license_logs>>

\* ------------------------------------------------------------ admin requests
\* the x-admin-key header: absent (undefined) or a string
AdminHeaders == Secrets \cup {Null}

\* if (adminKey !== process.env.ADMIN_KEY) return 401
Unauthorized(adminKey) == adminKey # ADMIN_KEY

Body401 == [error |-> "Brak autoryzacji"]
Body500 == [error |-> "Blad serwera"]

\* ---------------------------------------------- POST /api/admin/license/create
CreateBodies ==
    [license_key : OptKeys, owner : Owners \cup {Null},
     expires_at : ExpiresInputs, max_servers : MaxServersInputs]

\* the row of INSERT INTO licenses (license_key, owner, email, expires_at,
\* max_servers) VALUES ($1, $2, $3, expires_at || null, max_servers || 1);
\* status, last_check and reason take the defaults of the table
NewLicense(body) ==
    [license_key |-> body.license_key, owner |-> body.owner, status |-> "ACTIVE",
     expires_at |-> body.expires_at, max_servers |-> OrElseNum(body.max_servers, 1),
     last_check |-> NullT, reason |-> Null]

\* faulty variant: the table without the UNIQUE constraint on license_key
InsertFailsNoUnique(row) == row.license_key = Null \/ row.owner = Null

\* the constraints the INSERT can violate: license_key NOT NULL, owner NOT NULL,
\* license_key UNIQUE
InsertFails(row) ==
    \/ row.license_key = Null
    \/ row.owner = Null
    \/ SelectLicense(row.license_key) # {}

CreateRequest(r) ==
    /\ Free(r)
    /\ \E body \in CreateBodies, adminKey \in AdminHeaders :
        IF Unauthorized(adminKey)
        THEN /\ Answer("create", body, adminKey, 401, Body401)
             /\ UNCHANGED licenses
        ELSE IF InsertFails(NewLicense(body))
        THEN /\ Answer("create", body, adminKey, 500, Body500)
             /\ UNCHANGED licenses
        ELSE /\ licenses' = licenses \cup {NewLicense(body)}
             /\ req' = [req EXCEPT ![r] = [Idle EXCEPT !.op = "create",
                    !.pc = "logCreated", !.adminKey = adminKey,
                    !.body = [license_key |-> body.license_key, owner |-> body.owner]]]
             /\ UNCHANGED response
    /\ nreq' = nreq + 1
    /\ UNCHANGED <<ADMIN_KEY, simpleLicenses, now, license_servers, license_logs>>

CreateLog(r) ==
    /\ req[r].pc = "logCreated"
    /\ logAction(req[r].body.license_key, "LICENSE_CREATED", "Owner: ", req[r].body.owner, NoServer)
    /\ Respond(r, 200, [success |-> TRUE, message |-> "Licencja utworzona"])
    /\ UNCHANGED <<ADMIN_KEY, simpleLicenses, now, licenses, license_servers, nreq>>

\* --------------------------------------------- POST /api/admin/license/disable
DisableBodies == [license_key : OptKeys, reason : Reasons \cup {Null}]

DisableRequest(r) ==
    /\ Free(r)
    /\ \E body \in DisableBodies, adminKey \in AdminHeaders :
        IF Unauthorized(adminKey)
        THEN /\ Answer("disable", body, adminKey, 401, Body401)
             /\ UNCHANGED licenses
        ELSE /\ licenses' = UpdateDisabled(body.license_key,
                                           OrElse(body.reason, "Wylaczona przez admina"))
             /\ req' = [req EXCEPT ![r] = [Idle EXCEPT !.op = "disable",
                    !.pc = "logDisabled", !.body = body, !.adminKey = adminKey]]
             /\ UNCHANGED response
    /\ nreq' = nreq + 1
    /\ UNCHANGED <<ADMIN_KEY, simpleLicenses, now, license_servers, license_logs>>

DisableLog(r) ==
    /\ req[r].pc = "logDisabled"
    /\ logAction(req[r].body.license_key, "LICENSE_DISABLED",
                 OrElse(req[r].body.reason, "Admin action"), Null, NoServer)
    /\ Respond(r, 200, [success |-> TRUE, message |-> "Licencja wylaczona"])
    /\ UNCHANGED <<ADMIN_KEY, simpleLicenses, now, licenses, license_servers, nreq>>

\* ------------------------------------------------- GET /api/admin/licenses
\* INTERVAL '1 hour', in ticks of the clock
ActiveWindow == 1

\* COUNT(DISTINCT ls.server_id) over the LEFT JOIN with
\* ls.last_seen > NOW() - INTERVAL '1 hour'
ActiveServers(k) ==
    Cardinality({s.server_id : s \in {x \in license_servers :
                    x.license_key = k /\ x.last_seen > now - ActiveWindow}})

ListRows == {[license |-> l, active_servers |-> ActiveServers(l.license_key)] : l \in licenses}

ListRequest(r) ==
    /\ Free(r)
    /\ \E adminKey \in AdminHeaders :
        IF Unauthorized(adminKey)
        THEN Answer("list", NoBody, adminKey, 401, Body401)
        ELSE Answer("list", NoBody, adminKey, 200, [licenses |-> ListRows])
    /\ nreq' = nreq + 1
    /\ UNCHANGED <<ADMIN_KEY, simpleLicenses, now, licenses, license_servers, license_logs>>

\* ===================================================== the simple variant
\* crypto.randomBytes(16).toString('hex').toUpperCase(): the values it can return
SimpleKeys == {"A1", "B2"}

\* SELECT * FROM licenses WHERE license_key = $1
SimpleSelect(k) == {l \in simpleLicenses : l.license_key = k}

\* UPDATE licenses SET active = <active> WHERE license_key = $1
SimpleSetActive(k, active) ==
    {IF l.license_key = k THEN [l EXCEPT !.active = active] ELSE l : l \in simpleLicenses}

\* DELETE FROM licenses WHERE license_key = $1
SimpleDelete(k) == {l \in simpleLicenses : l.license_key # k}

\* the handlers of the simple variant execute one statement: a request is
\* received, its statement executed and its answer sent in one step
Receives == nreq < MaxRequests

SimpleBodies == [license_key : SimpleKeys \cup {Null}]

\* --------------------------------------------------- GET /api/generate-key
\* the INSERT violates UNIQUE when the random key is stored already
GenerateKey ==
    /\ Receives
    /\ \E key \in SimpleKeys :
        IF SimpleSelect(key) # {}
        THEN /\ Answer("generate-key", NoBody, Null, 500,
                       [error |-> "duplicate key", hint |-> "Sprawdz czy tabela licenses istnieje"])
             /\ UNCHANGED simpleLicenses
        ELSE /\ simpleLicenses' = simpleLicenses \cup {[license_key |-> key, active |-> TRUE]}
             /\ Answer("generate-key", NoBody, Null, 200,
                       [license_key |-> key, message |-> "Klucz zapisany w bazie danych"])
    /\ nreq' = nreq + 1
    /\ UNCHANGED <<ADMIN_KEY, now, licenses, license_servers, license_logs>>

\* -------------------------------------------------------- POST /api/verify
\* faulty variant: the active column is not looked at
DeactivatedNever(license) == FALSE

\* !license.active
Deactivated(license) == ~license.active

VerifyRequest ==
    /\ Receives
    /\ \E body \in SimpleBodies :
        LET result == SimpleSelect(body.license_key)
            license == CHOOSE l \in result : TRUE
        IN  IF Falsy(body.license_key)
            THEN Answer("verify", body, Null, 200,
                        [valid |-> FALSE, message |-> "Brak klucza licencji"])
            ELSE IF result = {}
            THEN Answer("verify", body, Null, 200,
                        [valid |-> FALSE, message |-> "Licencja nie istnieje w systemie"])
            ELSE IF Deactivated(license)
            THEN Answer("verify", body, Null, 200,
                        [valid |-> FALSE, message |-> "Licencja zostala dezaktywowana"])
            ELSE Answer("verify", body, Null, 200,
                        [valid |-> TRUE, message |-> "Licencja aktywna",
                         license_key |-> license.license_key])
    /\ nreq' = nreq + 1
    /\ UNCHANGED <<ADMIN_KEY, simpleLicenses, now, licenses, license_servers, license_logs>>

\* ------------------------------------------------------- GET /api/licenses
\* the rows are answered as a set: created_at and the ORDER BY are left out
SimpleListRequest ==
    /\ Receives
    /\ Answer("licenses", NoBody, Null, 200, [rows |-> simpleLicenses])
    /\ nreq' = nreq + 1
    /\ UNCHANGED <<ADMIN_KEY, simpleLicenses, now, licenses, license_servers, license_logs>>

\* ---------------------------------- POST /api/deactivate, POST /api/activate
DeactivateRequest ==
    /\ Receives
    /\ \E body \in SimpleBodies :
        IF Falsy(body.license_key)
        THEN /\ Answer("deactivate", body, Null, 400, [error |-> "Brak klucza licencji"])
             /\ UNCHANGED simpleLicenses
        ELSE /\ simpleLicenses' = SimpleSetActive(body.license_key, FALSE)
             /\ Answer("deactivate", body, Null, 200, [message |-> "Licencja dezaktywowana"])
    /\ nreq' = nreq + 1
    /\ UNCHANGED <<ADMIN_KEY, now, licenses, license_servers, license_logs>>

ActivateRequest ==
    /\ Receives
    /\ \E body \in SimpleBodies :
        IF Falsy(body.license_key)
        THEN /\ Answer("activate", body, Null, 400, [error |-> "Brak klucza licencji"])
             /\ UNCHANGED simpleLicenses
        ELSE /\ simpleLicenses' = SimpleSetActive(body.license_key, TRUE)
             /\ Answer("activate", body, Null, 200, [message |-> "Licencja reaktywowana"])
    /\ nreq' = nreq + 1
    /\ UNCHANGED <<ADMIN_KEY, now, licenses, license_servers, license_logs>>

\* ------------------------------------------------ DELETE /api/licenses/:key
\* req.params.key is a segment of the path, never empty
DeleteRequest ==
    /\ Receives
    /\ \E key \in SimpleKeys :
        LET rowCount == Cardinality(SimpleSelect(key))
        IN  /\ simpleLicenses' = SimpleDelete(key)
            /\ IF rowCount = 0
               THEN Answer("delete", [license_key |-> key], Null, 404,
                           [error |-> "Licencja nie istnieje"])
               ELSE Answer("delete", [license_key |-> key], Null, 200,
                           [message |-> "Licencja usunieta"])
    /\ nreq' = nreq + 1
    /\ UNCHANGED <<ADMIN_KEY, now, licenses, license_servers, license_logs>>

\* ======================================================= storage failures
\* A pool.query can reject (connection lost, timeout).  In a handler the catch
\* block answers 500; in logAction the catch block discards the error.

\* the program points of a handler whose next statement is the INSERT of
\* logAction, and those whose next statement is a query of the handler itself
LogPcs == {"logNotFound", "logInactive", "logExpired", "logLimit", "logSuccess",
           "logCreated", "logDisabled"}
QueryPcs == {"updateExpired", "count", "existing", "upsert", "lastCheck"}

\* res.status(500).json({ valid: false, error: 'Blad serwera' })
ValidateBody500 == [valid |-> FALSE, error |-> "Blad serwera"]

\* the answer a handler sends after its await logAction(...) has returned
Reply(q) ==
    CASE q.pc = "logNotFound" ->
            [code |-> 404, body |-> [valid |-> FALSE, error |-> "Licencja nie znaleziona"]]
      [] q.pc = "logInactive" ->
            [code |-> 403, body |-> [valid |-> FALSE, active |-> FALSE,
                                     status |-> q.license.status,
                                     reason |-> OrElse(q.license.reason, "Licencja nieaktywna")]]
      [] q.pc = "logExpired" ->
            [code |-> 403, body |-> [valid |-> FALSE, error |-> "Licencja wygasla"]]
      [] q.pc = "logLimit" ->
            [code |-> 403, body |-> [valid |-> FALSE, error |-> "Przekroczony limit serverow"]]
      [] q.pc = "logSuccess" ->
            [code |-> 200, body |-> [valid |-> TRUE, active |-> TRUE,
                                     status |-> q.license.status,
                                     owner |-> q.license.owner,
                                     expires |-> q.license.expires_at]]
      [] q.pc = "logCreated" ->
            [code |-> 200, body |-> [success |-> TRUE, message |-> "Licencja utworzona"]]
      [] q.pc = "logDisabled" ->
            [code |-> 200, body |-> [success |-> TRUE, message |-> "Licencja wylaczona"]]

\* faulty variant: logAction without its try/catch, the rejected INSERT reaches
\* the catch block of the handler
LogFailsThrown(r) ==
    /\ req[r].pc \in LogPcs
    /\ Respond(r, 500, IF req[r].op = "validate" THEN ValidateBody500 ELSE Body500)
    /\ UNCHANGED <<ADMIN_KEY, simpleLicenses, now, licenses, license_servers, license_logs, nreq>>

\* the INSERT of logAction fails: the error is discarded, logAction returns
\* and the handler sends its answer
LogFails(r) ==
    /\ req[r].pc \in LogPcs
    /\ Respond(r, Reply(req[r]).code, Reply(req[r]).body)
    /\ UNCHANGED <<ADMIN_KEY, simpleLicenses, now, licenses, license_servers, license_logs, nreq>>

\* the first query of validate (the SELECT of the license) fails
ValidateLookupFails(r) ==
    /\ Free(r)
    /\ \E body \in ValidateBodies :
        /\ ~(Falsy(body.license_key) \/ body.server_id = NoServer)
        /\ Answer("validate", body, Null, 500, ValidateBody500)
    /\ nreq' = nreq + 1
    /\ UNCHANGED <<ADMIN_KEY, simpleLicenses, now, licenses, license_servers, license_logs>>

\* a later query of validate fails: nothing is undone, the catch answers 500
ValidateQueryFails(r) ==
    /\ req[r].op = "validate"
    /\ req[r].pc \in QueryPcs
    /\ Respond(r, 500, ValidateBody500)
    /\ UNCHANGED <<ADMIN_KEY, simpleLicenses, now, licenses, license_servers, license_logs, nreq>>

\* the SELECT of check fails
CheckFails(r) ==
    /\ Free(r)
    /\ \E body \in CheckBodies :
        /\ ~Falsy(body.license_key)
        /\ Answer("check", body, Null, 500, Body500)
    /\ nreq' = nreq + 1
    /\ UNCHANGED <<ADMIN_KEY, simpleLicenses, now, licenses, license_servers, license_logs>>

\* the INSERT of create fails for a reason other than a constraint
CreateFails(r) ==
    /\ Free(r)
    /\ \E body \in CreateBodies, adminKey \in AdminHeaders :
        /\ ~Unauthorized(adminKey)
        /\ Answer("create", body, adminKey, 500, Body500)
    /\ nreq' = nreq + 1
    /\ UNCHANGED <<ADMIN_KEY, simpleLicenses, now, licenses, license_servers, license_logs>>

\* the UPDATE of disable fails
DisableFails(r) ==
    /\ Free(r)
    /\ \E body \in DisableBodies, adminKey \in AdminHeaders :
        /\ ~Unauthorized(adminKey)
        /\ Answer("disable", body, adminKey, 500, Body500)
    /\ nreq' = nreq + 1
    /\ UNCHANGED <<ADMIN_KEY, simpleLicenses, now, licenses, license_servers, license_logs>>

\* the SELECT of the admin list fails
ListFails(r) ==
    /\ Free(r)
    /\ \E adminKey \in AdminHeaders :
        /\ ~Unauthorized(adminKey)
        /\ Answer("list", NoBody, adminKey, 500, Body500)
    /\ nreq' = nreq + 1
    /\ UNCHANGED <<ADMIN_KEY, simpleLicenses, now, licenses, license_servers, license_logs>>

\* ------------------------------------------------------------------ clock
Tick ==
    /\ now < MaxTime
    /\ now' = now + 1
    /\ UNCHANGED <<ADMIN_KEY, simpleLicenses, licenses, license_servers, license_logs, req, response, nreq>>

Init ==
    /\ ADMIN_KEY \in {Null, "secret"}
    /\ now = 0
    /\ licenses = {}
    /\ license_servers = {}
    /\ license_logs = EmptyBag
    /\ simpleLicenses = {}
    /\ req = [r \in Slots |-> Idle]
    /\ response = NoResponse
    /\ nreq = 0

Next ==
    \/ Tick
    \/ \E r \in Slots : ValidateLookup(r)
    \/ \E r \in Slots : ValidateLogNotFound(r)
    \/ \E r \in Slots : ValidateLogInactive(r)
    \/ \E r \in Slots : ValidateUpdateExpired(r)
    \/ \E r \in Slots : ValidateLogExpired(r)
    \/ \E r \in Slots : ValidateCount(r)
    \/ \E r \in Slots : ValidateExisting(r)
    \/ \E r \in Slots : ValidateLogLimit(r)
    \/ \E r \in Slots : ValidateUpsert(r)
    \/ \E r \in Slots : ValidateLastCheck(r)
    \/ \E r \in Slots : ValidateLogSuccess(r)
    \/ \E r \in Slots : CheckRequest(r)
    \/ \E r \in Slots : CreateRequest(r)
    \/ \E r \in Slots : CreateLog(r)
    \/ \E r \in Slots : DisableRequest(r)
    \/ \E r \in Slots : DisableLog(r)
    \/ \E r \in Slots : ListRequest(r)

Spec == Init /\ [][Next]_vars

\* Requests handled one at a time: a request is received only when no handler
\* is in flight.
Quiet == \A q \in Slots : req[q].pc = "idle"

NextSeq ==
    \/ Tick
    \/ \E r \in Slots : Quiet /\ ValidateLookup(r)
    \/ \E r \in Slots : ValidateLogNotFound(r)
    \/ \E r \in Slots : ValidateLogInactive(r)
    \/ \E r \in Slots : ValidateUpdateExpired(r)
    \/ \E r \in Slots : ValidateLogExpired(r)
    \/ \E r \in Slots : ValidateCount(r)
    \/ \E r \in Slots : ValidateExisting(r)
    \/ \E r \in Slots : ValidateLogLimit(r)
    \/ \E r \in Slots : ValidateUpsert(r)
    \/ \E r \in Slots : ValidateLastCheck(r)
    \/ \E r \in Slots : ValidateLogSuccess(r)
    \/ \E r \in Slots : Quiet /\ CheckRequest(r)
    \/ \E r \in Slots : Quiet /\ CreateRequest(r)
    \/ \E r \in Slots : CreateLog(r)
    \/ \E r \in Slots : Quiet /\ DisableRequest(r)
    \/ \E r \in Slots : DisableLog(r)
    \/ \E r \in Slots : Quiet /\ ListRequest(r)

SpecSeq == Init /\ [][NextSeq]_vars

\* The extended variant with storage failures: every statement can fail.
NextFault ==
    \/ Next
    \/ \E r \in Slots : LogFails(r)
    \/ \E r \in Slots : ValidateLookupFails(r)
    \/ \E r \in Slots : ValidateQueryFails(r)
    \/ \E r \in Slots : CheckFails(r)
    \/ \E r \in Slots : CreateFails(r)
    \/ \E r \in Slots : DisableFails(r)
    \/ \E r \in Slots : ListFails(r)

SpecFault == Init /\ [][NextFault]_vars

\* The same, requests handled one at a time.
NextFaultSeq ==
    \/ NextSeq
    \/ \E r \in Slots : LogFails(r)
    \/ \E r \in Slots : Quiet /\ ValidateLookupFails(r)
    \/ \E r \in Slots : ValidateQueryFails(r)
    \/ \E r \in Slots : Quiet /\ CheckFails(r)
    \/ \E r \in Slots : Quiet /\ CreateFails(r)
    \/ \E r \in Slots : Quiet /\ DisableFails(r)
    \/ \E r \in Slots : Quiet /\ ListFails(r)

SpecFaultSeq == Init /\ [][NextFaultSeq]_vars

\* The simple variant alone.
NextSimple ==
    \/ GenerateKey
    \/ VerifyRequest
    \/ SimpleListRequest
    \/ DeactivateRequest
    \/ ActivateRequest
    \/ DeleteRequest

SpecSimple == Init /\ [][NextSimple]_vars

\* The operations that create and switch off a license, of both variants.
NextDisable ==
    \/ \E r \in Slots : CreateRequest(r)
    \/ \E r \in Slots : CreateLog(r)
    \/ \E r \in Slots : DisableRequest(r)
    \/ \E r \in Slots : DisableLog(r)
    \/ GenerateKey
    \/ DeactivateRequest

SpecDisable == Init /\ [][NextDisable]_vars

\* ---------------------------------------------------------------- properties
\* vocabulary of the properties
Bound(k, sid) == SelectServer(k, sid) # {}
IsValid(body) == "valid" \in DOMAIN body /\ body.valid
HasError(body, text) == "error" \in DOMAIN body /\ body.error = text
HasStatus(body, status) == "status" \in DOMAIN body /\ body.status = status
Logged(k, action, text) ==
    \E e \in BagToSet(license_logs) :
        e.license_key = k /\ e.action = action /\ e.details.text = text
\* handler r sends its answer in this step
Answers(r, op) == req[r].op = op /\ req[r].pc # "idle" /\ req'[r].pc = "idle"
\* a request of this kind is received in this step by slot r and stays in flight
Starts(r, op) == req[r].pc = "idle" /\ req'[r].pc # "idle" /\ req'[r].op = op
\* a request of this kind is received and answered in this one step
AnswersAtOnce(op) == nreq' = nreq + 1 /\ req' = req /\ response'.op = op

\* C1: when the validate requests of a license run one at a time and the license
\* is ACTIVE and unexpired with max_servers = N >= 1, a validate is answered
\* either valid:true, with its server_id bound and at most N bindings, or with
\* the capacity 403, with its server_id unbound and the N bindings all taken: so
\* the first N distinct server_ids are admitted, any further one is rejected, and
\* a bound server_id is never rejected, also when the cap is full.
C1_SequentialAdmission ==
    [][\A r \in Slots :
        Answers(r, "validate") =>
            LET k == req[r].body.license_key
                sid == req[r].body.server_id
            IN  \A l \in SelectLicense(k) :
                    (l.status = "ACTIVE" /\ ~IsExpired(l) /\ l.max_servers >= 1) =>
                        \/ /\ response'.code = 200
                           /\ IsValid(response'.body)
                           /\ Bound(k, sid)
                           /\ CountServers(k) <= l.max_servers
                        \/ /\ response'.code = 403
                           /\ HasError(response'.body, "Przekroczony limit serverow")
                           /\ ~Bound(k, sid)
                           /\ CountServers(k) >= l.max_servers]_vars

\* a bound server re-validated with success after another server was rejected
\* for capacity, the cap being full
C1_Witness ==
    \E l \in licenses :
        /\ l.status = "ACTIVE"
        /\ l.max_servers >= 1
        /\ CountServers(l.license_key) = l.max_servers
        /\ Logged(l.license_key, "VALIDATE_FAILED", "Przekroczony limit serverow")
        /\ response.op = "validate"
        /\ response.code = 200
        /\ IsValid(response.body)
        /\ response.request.license_key = l.license_key
        /\ CopiesIn([license_key |-> l.license_key, action |-> "VALIDATE_SUCCESS",
                     details |-> [text |-> "Server: ", arg |-> Null,
                                  server_id |-> response.request.server_id]],
                    license_logs) >= 2

\* handler r executes its upsert in this step
Upserts(r) == req[r].pc = "upsert" /\ req'[r].pc = "lastCheck"

\* C2: a validate that inserts a new binding has read a binding count below
\* max_servers; the bindings of a key come to exceed max_servers only by such an
\* insert whose count was read before another validate inserted (its count is
\* stale), and with two interleaved validates from two new server_ids that
\* state is reached.
C2_OverAdmissionByStaleCount ==
    [][\A r \in Slots :
        (Upserts(r) /\ ~Bound(req[r].body.license_key, req[r].body.server_id)) =>
            /\ req[r].serverCount < req[r].license.max_servers
            /\ CountServers(req[r].body.license_key)' = CountServers(req[r].body.license_key) + 1
            /\ CountServers(req[r].body.license_key)' > req[r].license.max_servers
                    => req[r].serverCount < CountServers(req[r].body.license_key)]_vars

\* both validates have read a count below the cap and inserted: the bindings of
\* the key exceed max_servers
C2_Witness ==
    \E l \in licenses :
        /\ l.max_servers >= 1
        /\ CountServers(l.license_key) > l.max_servers
        /\ \A r \in Slots :
            /\ req[r].op = "validate"
            /\ req[r].pc \in {"lastCheck", "logSuccess"}
            /\ req[r].body.license_key = l.license_key
            /\ ~req[r].existingServer
            /\ req[r].serverCount < l.max_servers
        /\ \A r, q \in Slots : r # q => req[r].body.server_id # req[q].body.server_id

\* C3: the upsert of a validate for a pair already bound overwrites the
\* metadata and last_seen of that binding and leaves the number of bindings of
\* the key unchanged; there is never more than one binding per
\* (license_key, server_id), also after two overlapping validates of one new pair.
C3_UpsertKeepsPairUnique ==
    [][/\ \A k \in Keys, sid \in ServerIds : Cardinality(SelectServer(k, sid)') <= 1
       /\ \A r \in Slots :
            LET k == req[r].body.license_key
                sid == req[r].body.server_id
            IN  (Upserts(r) /\ Bound(k, sid)) =>
                    /\ CountServers(k)' = CountServers(k)
                    /\ \A s \in SelectServer(k, sid)' :
                            s.meta = req[r].body.meta /\ s.last_seen = now
                    /\ \A s \in license_servers :
                            (s.license_key # k \/ s.server_id # sid) => s \in license_servers']_vars

\* two overlapping validates of one pair that both found it unbound have both
\* executed their upsert, the second overwriting the metadata of the first
C3_Witness ==
    /\ \A r \in Slots :
        /\ req[r].op = "validate"
        /\ req[r].pc \in {"lastCheck", "logSuccess"}
        /\ ~req[r].existingServer
    /\ req[1].body.license_key = req[2].body.license_key
    /\ req[1].body.server_id = req[2].body.server_id
    /\ req[1].body.meta # req[2].body.meta
    /\ Cardinality(SelectServer(req[1].body.license_key, req[1].body.server_id)) = 1

\* an admin disable that updated the license of key k has completed: the row
\* carries a reason (only the disable sets one) and no disable of k is in flight
DisableCompleted(k) ==
    /\ \E l \in SelectLicense(k) : l.reason # Null
    /\ \A q \in Slots :
            ~(req[q].op = "disable" /\ req[q].pc # "idle" /\ req[q].body.license_key = k)

\* C4: after an admin disable of an existing license has completed, every
\* validate that starts afterwards for that key is rejected as inactive, with
\* status DISABLED and the stored reason.
C4_DisabledIsRejected ==
    [][\A r \in Slots :
        /\ (Starts(r, "validate") /\ DisableCompleted(req'[r].body.license_key)) =>
                /\ req'[r].pc = "logInactive"
                /\ req'[r].license.status = "DISABLED"
                /\ req'[r].license.reason # Null
        /\ (Answers(r, "validate") /\ req[r].pc = "logInactive") =>
                /\ response'.code = 403
                /\ ~IsValid(response'.body)
                /\ HasStatus(response'.body, req[r].license.status)
                /\ response'.body.reason = OrElse(req[r].license.reason, "Licencja nieaktywna")]_vars

\* a validate of key k that found the license expired has set EXPIRED and answered
ExpiredByValidate(k) == Logged(k, "VALIDATE_FAILED", "Licencja wygasla")

\* C5: a validate of an ACTIVE license that has expired persists EXPIRED, is
\* answered 403 valid:false, touches no binding and no last_check; every later
\* validate and check of the key reports it not active with status EXPIRED.
C5_ExpiredIsReported ==
    [][/\ \A r \in Slots :
            /\ (req[r].pc = "updateExpired" /\ req'[r] # req[r]) =>
                    /\ \A l \in SelectLicense(req[r].body.license_key)' :
                            l.status = "EXPIRED"
                    /\ UNCHANGED license_servers
                    /\ \A l \in licenses : \E m \in licenses' :
                            m.license_key = l.license_key /\ m.last_check = l.last_check
            /\ (req[r].pc = "logExpired" /\ req'[r] # req[r]) =>
                    /\ response'.code = 403
                    /\ ~IsValid(response'.body)
                    /\ UNCHANGED <<licenses, license_servers>>
            /\ (Starts(r, "validate") /\ ExpiredByValidate(req'[r].body.license_key)) =>
                    /\ req'[r].pc = "logInactive"
                    /\ req'[r].license.status = "EXPIRED"
       /\ (AnswersAtOnce("check") /\ ExpiredByValidate(response'.request.license_key)) =>
            /\ response'.code = 200
            /\ ~response'.body.active
            /\ response'.body.status = "EXPIRED"]_vars

\* C6: the status of a license starts ACTIVE and only ever changes
\* ACTIVE -> EXPIRED or ACTIVE -> DISABLED; nothing changes an EXPIRED status.
C6_StatusTransitions ==
    [][\A m \in licenses' :
        IF SelectLicense(m.license_key) = {}
        THEN m.status = "ACTIVE"
        ELSE \A l \in SelectLicense(m.license_key) :
                \/ m.status = l.status
                \/ l.status = "ACTIVE" /\ m.status \in {"EXPIRED", "DISABLED"}]_vars

\* C7: a validate whose license_key is not stored is answered 404 valid:false
\* (400 valid:false if it carries no server_id), never valid:true, and no step
\* of it changes licenses or license_servers.
C7_UnknownKeyNotFound ==
    [][/\ \A r \in Slots :
            /\ (Starts(r, "validate") /\ SelectLicense(req'[r].body.license_key) = {}) =>
                    /\ req'[r].pc = "logNotFound"
                    /\ UNCHANGED <<licenses, license_servers>>
            /\ (req[r].pc = "logNotFound" /\ req'[r] # req[r]) =>
                    /\ response'.op = "validate"
                    /\ response'.request = [license_key |-> req[r].body.license_key,
                                            server_id |-> req[r].body.server_id]
                    /\ response'.code = 404
                    /\ ~IsValid(response'.body)
                    /\ HasError(response'.body, "Licencja nie znaleziona")
                    /\ UNCHANGED <<licenses, license_servers>>
       /\ (AnswersAtOnce("validate")
                /\ SelectLicense(response'.request.license_key) = {}) =>
            /\ response'.request.server_id = NoServer
                    \/ response'.request.license_key = Null
            /\ response'.code = 400
            /\ ~IsValid(response'.body)
            /\ UNCHANGED <<licenses, license_servers>>]_vars

\* a validate of a key that is not stored has been answered 404, and the key
\* has neither a license nor a binding
C7_Witness ==
    /\ response.op = "validate"
    /\ response.code = 404
    /\ response.request.license_key \in Keys
    /\ response.request.server_id \in ServerIds
    /\ SelectLicense(response.request.license_key) = {}
    /\ CountServers(response.request.license_key) = 0
    /\ Logged(response.request.license_key, "VALIDATE_FAILED", "Licencja nie znaleziona")

AdminOps == {"create", "disable", "list"}

\* C8: an admin request whose x-admin-key header is absent or empty, or differs
\* from the configured secret, is answered 401 and changes no table, whatever
\* the configuration of the secret.
C8_AdminKeyRequired ==
    [][/\ \A r \in Slots : \A op \in AdminOps :
            Starts(r, op) => req'[r].adminKey # Null /\ req'[r].adminKey = ADMIN_KEY
       /\ \A op \in AdminOps :
            (AnswersAtOnce(op)
                /\ (response'.adminKey = Null \/ response'.adminKey # ADMIN_KEY)) =>
                    /\ response'.code = 401
                    /\ UNCHANGED db]_vars

\* the number of LICENSE_CREATED rows for key k in a log
CreatedIn(logs, k) ==
    BagCardinality([e \in {x \in BagToSet(logs) :
                              x.license_key = k /\ x.action = "LICENSE_CREATED"}
                    |-> logs[e]])
CreatedLogs(k) == CreatedIn(license_logs, k)
\* the creates of key k that have inserted and not yet logged
CreatesInFlight(k) ==
    Cardinality({q \in Slots : req[q].op = "create" /\ req[q].pc = "logCreated"
                                    /\ req[q].body.license_key = k})

\* a create that names a key not yet stored (and, if asked for, an owner)
NewKey(request, withOwner) ==
    /\ request.license_key # Null
    /\ SelectLicense(request.license_key) = {}
    /\ withOwner => request.owner # Null

\* what an authorized create does, the creates that must be accepted being those
\* with a new key (and, if asked for, an owner)
CreateContract(withOwner) ==
    /\ \A r \in Slots :
        /\ Starts(r, "create") =>
                LET k == req'[r].body.license_key
                IN  /\ SelectLicense(k) = {}
                    /\ \E row \in licenses' :
                            /\ row.license_key = k
                            /\ row.status = "ACTIVE"
                            /\ licenses' = licenses \cup {row}
                    /\ Cardinality({l \in licenses' : l.license_key = k}) = 1
                    /\ UNCHANGED <<license_servers, license_logs>>
        /\ Answers(r, "create") =>
                /\ response'.code = 200
                /\ CreatedIn(license_logs', req[r].body.license_key) = 1
                /\ CreatedIn(license_logs, req[r].body.license_key) = 0
                /\ UNCHANGED <<licenses, license_servers>>
    /\ (AnswersAtOnce("create") /\ ~Unauthorized(response'.adminKey)) =>
        /\ response'.code = 500
        /\ ~NewKey(response'.request, withOwner)
        /\ UNCHANGED db
    /\ \A k \in Keys :
            CreatedLogs(k)' + CreatesInFlight(k)' = Cardinality(SelectLicense(k)')

\* C9 as claimed: an authorized create whose license_key exists fails, changes
\* no license and no binding and writes no LICENSE_CREATED entry; an authorized
\* create with a new key inserts exactly one ACTIVE license and writes one
\* LICENSE_CREATED entry.
C9_CreateAnyNewKey == [][CreateContract(FALSE)]_vars

\* C9 as amended: an authorized create whose license_key exists fails (500),
\* changes no license and no binding and writes no LICENSE_CREATED entry; an
\* authorized create with a new key and an owner inserts exactly one ACTIVE
\* license and writes one LICENSE_CREATED entry.
C9_CreateNewKeyWithOwner == [][CreateContract(TRUE)]_vars

\* an authorized create of a stored key, with an owner, has been answered 500;
\* the key has its one license and its one LICENSE_CREATED entry
C9_Witness ==
    /\ response.op = "create"
    /\ response.code = 500
    /\ ~Unauthorized(response.adminKey)
    /\ response.request.license_key \in Keys
    /\ response.request.owner # Null
    /\ Cardinality(SelectLicense(response.request.license_key)) = 1
    /\ CreatedLogs(response.request.license_key) = 1

\* C10: an authorized create that supplies no license_key succeeds: a key is
\* generated and a license with that key and status ACTIVE is inserted.
C10_CreateGeneratesKey ==
    [][(AnswersAtOnce("create")
            /\ ~Unauthorized(response'.adminKey)
            /\ response'.request.license_key = Null
            /\ response'.request.owner # Null) =>
        /\ response'.code = 200
        /\ \E row \in licenses' \ licenses : row.status = "ACTIVE"]_vars

\* vocabulary of the simple variant
Stored(k) == SimpleSelect(k) # {}
StoredActive(k) == \E l \in SimpleSelect(k) : l.active
StoredInactive(k) == \E l \in SimpleSelect(k) : ~l.active
HasMessage(body, text) == "message" \in DOMAIN body /\ body.message = text
\* a request of the simple variant on key k is received and answered in this step
SimpleOn(op, k) == AnswersAtOnce(op) /\ response'.request = [license_key |-> k]
Generates(k) ==
    AnswersAtOnce("generate-key") /\ response'.code = 200 /\ response'.body.license_key = k

\* C11: in the simple variant verify(k) answers valid:true exactly when k is
\* stored with active = true, with the deactivation message when k is stored
\* inactive and the does-not-exist message when k is not stored; a key becomes
\* stored (and active) only by the generate-key that returns it, active turns
\* false only by deactivate(k), true again only by activate(k), and the key
\* disappears only by delete(k).
C11_VerifyFollowsActive ==
    [][/\ AnswersAtOnce("verify") =>
            LET k == response'.request.license_key
            IN  /\ response'.code = 200
                /\ IsValid(response'.body) <=> StoredActive(k)
                /\ StoredInactive(k) =>
                        HasMessage(response'.body, "Licencja zostala dezaktywowana")
                /\ (k # Null /\ ~Stored(k)) =>
                        HasMessage(response'.body, "Licencja nie istnieje w systemie")
                /\ UNCHANGED simpleLicenses
       /\ \A k \in SimpleKeys :
            /\ Generates(k) => ~Stored(k) /\ StoredActive(k)'
            /\ SimpleOn("deactivate", k) =>
                    (Stored(k)' <=> Stored(k)) /\ ~StoredActive(k)'
            /\ SimpleOn("activate", k) =>
                    (Stored(k)' <=> Stored(k)) /\ ~StoredInactive(k)'
            /\ SimpleOn("delete", k) => ~Stored(k)'
            /\ (~Stored(k) /\ Stored(k)') => Generates(k)
            /\ (StoredActive(k) /\ StoredInactive(k)') => SimpleOn("deactivate", k)
            /\ (StoredInactive(k) /\ StoredActive(k)') => SimpleOn("activate", k)
            /\ (Stored(k) /\ ~Stored(k)') => SimpleOn("delete", k)]_vars

\* a generated key has been deactivated and its verify answered valid:false
\* with the deactivation message
C11_Witness ==
    /\ response.op = "verify"
    /\ response.code = 200
    /\ ~IsValid(response.body)
    /\ HasMessage(response.body, "Licencja zostala dezaktywowana")
    /\ StoredInactive(response.request.license_key)

\* C12: a check request changes no license (also not the status of a license
\* whose expires_at has passed), no binding and no log entry; for a stored key
\* it is answered 200 with the stored status and active = true exactly when the
\* status is ACTIVE and expires_at is null or later than now; for a key that is
\* not stored it is answered 404.
C12_CheckReadOnly ==
    [][AnswersAtOnce("check") =>
        LET k == response'.request.license_key
        IN  /\ UNCHANGED db
            /\ \A l \in SelectLicense(k) :
                    /\ response'.code = 200
                    /\ response'.body.status = l.status
                    /\ response'.body.expires = l.expires_at
                    /\ response'.body.active <=>
                            /\ l.status = "ACTIVE"
                            /\ l.expires_at = NullT \/ Val(l.expires_at) > now
            /\ (k # Null /\ SelectLicense(k) = {}) => response'.code = 404]_vars

\* a check of an ACTIVE license whose expires_at has passed has answered
\* active = false, and the stored status is still ACTIVE
C12_Witness ==
    /\ response.op = "check"
    /\ response.code = 200
    /\ ~response.body.active
    /\ response.body.status = "ACTIVE"
    /\ \E l \in SelectLicense(response.request.license_key) :
            l.status = "ACTIVE" /\ l.expires_at # NullT /\ Val(l.expires_at) < now

\* handler r, whose next statement is the INSERT of logAction, takes its step
LogStep(r) == req[r].pc \in LogPcs /\ req'[r] # req[r]

\* C13: whether the INSERT of logAction succeeds or fails, the handler that
\* awaited it (validate, create, disable) sends the answer its state before the
\* INSERT determines, never the 500 of a storage failure, and the step changes
\* neither licenses nor license_servers.
C13_LogFailureKeepsOutcome ==
    [][\A r \in Slots :
        LogStep(r) =>
            /\ req'[r] = Idle
            /\ response'.op = req[r].op
            /\ response'.request = Target(req[r].op, req[r].body)
            /\ response'.code = Reply(req[r]).code
            /\ response'.body = Reply(req[r]).body
            /\ response'.code # 500
            /\ UNCHANGED <<licenses, license_servers>>]_vars

\* a validate has been answered valid:true and its binding exists, but no
\* VALIDATE_SUCCESS entry was written for the key: the log write failed
C13_Witness ==
    /\ response.op = "validate"
    /\ response.code = 200
    /\ IsValid(response.body)
    /\ Bound(response.request.license_key, response.request.server_id)
    /\ \A e \in BagToSet(license_logs) :
            ~(e.license_key = response.request.license_key /\ e.action = "VALIDATE_SUCCESS")

KeysOf(table) == {l.license_key : l \in table}
\* C14: the UPDATE of an authorized disable leaves the license of its key
\* DISABLED with the given reason (the default reason when none is given), its
\* other columns and every other license as they were; on a license that is
\* already DISABLED with that reason it changes nothing, so a second disable
\* with the same key and reason leaves licenses as the first did.  A disable of
\* a key that is not stored is answered with success and stores no license, and
\* so is a deactivate of the simple variant.
C14_DisableIdempotent ==
    [][/\ \A r \in Slots :
            /\ Starts(r, "disable") =>
                    LET k == req'[r].body.license_key
                        reason == OrElse(req'[r].body.reason, "Wylaczona przez admina")
                    IN  /\ \A m \in licenses' :
                                m.license_key = k => m.status = "DISABLED" /\ m.reason = reason
                        /\ \A l \in licenses :
                                IF l.license_key = k
                                THEN \E m \in licenses' :
                                        /\ m.license_key = k
                                        /\ m.owner = l.owner
                                        /\ m.expires_at = l.expires_at
                                        /\ m.max_servers = l.max_servers
                                        /\ m.last_check = l.last_check
                                ELSE l \in licenses'
                        /\ KeysOf(licenses') = KeysOf(licenses)
                        /\ Cardinality(licenses') = Cardinality(licenses)
                        /\ (\A l \in SelectLicense(k) :
                                l.status = "DISABLED" /\ l.reason = reason)
                                    => licenses' = licenses
                        /\ UNCHANGED license_servers
            /\ Answers(r, "disable") =>
                    /\ response'.code = 200
                    /\ response'.body.success
                    /\ UNCHANGED <<licenses, license_servers>>
       /\ \A k \in SimpleKeys :
            SimpleOn("deactivate", k) =>
                /\ response'.code = 200
                /\ KeysOf(simpleLicenses') = KeysOf(simpleLicenses)
                /\ Cardinality(simpleLicenses') = Cardinality(simpleLicenses)]_vars

\* two authorized disables of a stored license with the same reason have
\* completed: the license is DISABLED with that reason
C14_Witness ==
    \E l \in licenses :
        /\ l.status = "DISABLED"
        /\ l.reason \in Reasons
        /\ CopiesIn([license_key |-> l.license_key, action |-> "LICENSE_DISABLED",
                     details |-> [text |-> l.reason, arg |-> Null, server_id |-> NoServer]],
                    license_logs) >= 2
        /\ response.op = "disable"
        /\ response.code = 200

\* the bindings of key k
Bindings(k) == {s \in license_servers : s.license_key = k}
\* no step removes a binding
BindingsKept ==
    \A s \in license_servers :
        \E t \in license_servers' :
            t.license_key = s.license_key /\ t.server_id = s.server_id

\* C15 as claimed: no binding is ever removed, and once a license with
\* max_servers = N has N bindings no validate inserts a binding for a further
\* server_id of that key.
C15_NoAdmissionOnceFull ==
    [][/\ BindingsKept
       /\ \A r \in Slots :
            LET k == req[r].body.license_key
                sid == req[r].body.server_id
            IN  (Upserts(r) /\ ~Bound(k, sid)) =>
                    \A l \in SelectLicense(k) : Cardinality(Bindings(k)) < l.max_servers]_vars

\* C15 as amended: no binding is ever removed; a validate reads as its count
\* the number of bindings the key has at that moment, whenever they were last
\* seen, and a validate that has read a count of max_servers or more and finds
\* its own server_id unbound is rejected with the capacity 403 and inserts
\* nothing.
C15_BindingsOnlyGrow ==
    [][/\ BindingsKept
       /\ \A r \in Slots :
            LET k == req[r].body.license_key
                sid == req[r].body.server_id
            IN  /\ (req[r].pc = "count" /\ req'[r] # req[r]) =>
                        /\ req'[r].pc = "existing"
                        /\ req'[r].serverCount = Cardinality(Bindings(k))
                /\ (req[r].pc = "existing" /\ req'[r] # req[r]
                        /\ req[r].serverCount >= req[r].license.max_servers
                        /\ ~Bound(k, sid)) =>
                            req'[r].pc = "logLimit"
                /\ (req[r].pc = "logLimit" /\ req'[r] # req[r]) =>
                        /\ response'.code = 403
                        /\ ~IsValid(response'.body)
                        /\ HasError(response'.body, "Przekroczony limit serverow")
                        /\ UNCHANGED license_servers]_vars

\* a license has its max_servers bindings, all last seen before now, and a
\* validate from a server_id that is not bound has been rejected for capacity
C15_Witness ==
    \E l \in licenses :
        /\ l.max_servers >= 1
        /\ Cardinality(Bindings(l.license_key)) = l.max_servers
        /\ \A s \in Bindings(l.license_key) : s.last_seen < now
        /\ response.op = "validate"
        /\ response.code = 403
        /\ HasError(response.body, "Przekroczony limit serverow")
        /\ response.request.license_key = l.license_key
        /\ ~Bound(l.license_key, response.request.server_id)

\* C16: every stored license has max_servers >= 1, whatever max_servers the
\* create request carried (none, 0 or a negative number).
C16_MaxServersPositive == \A l \in licenses : l.max_servers >= 1

\* handler r has executed the upsert of its binding
Upserted(r) == req[r].op = "validate" /\ req[r].pc \in {"lastCheck", "logSuccess"}
\* the last_check column, per license
LastChecks == {[license_key |-> l.license_key, last_check |-> l.last_check] : l \in licenses}

\* C17: a validate answered with an error (400, 403, 404, or 500 after a failed
\* statement) has changed no binding and no last_check: it is never a handler
\* that has executed its upsert, and its answering step changes neither.
C17_ErrorsChangeNothing ==
    [][/\ \A r \in Slots :
            (Answers(r, "validate") /\ ~IsValid(response'.body)) =>
                /\ ~Upserted(r)
                /\ UNCHANGED license_servers
                /\ LastChecks' = LastChecks
       /\ AnswersAtOnce("validate") =>
            /\ ~IsValid(response'.body)
            /\ UNCHANGED license_servers
            /\ LastChecks' = LastChecks]_vars

\* the UPDATE of an admin disable has been executed on the license of key k
\* (only that UPDATE stores a reason)
Revoked(k) == \E l \in SelectLicense(k) : l.reason # Null
\* the bindings and the last_check of key k
BindingState(k) ==
    <<Bindings(k), {l.last_check : l \in SelectLicense(k)}>>

\* C18 as claimed: once an admin disable of a license has completed, no step
\* creates or refreshes a binding of its key or updates its last_check, and no
\* validate of the key is answered valid:true, also not one that read the
\* license before the disable.
C18_RevocationStopsInFlight ==
    [][\A k \in Keys :
        DisableCompleted(k) =>
            /\ BindingState(k)' = BindingState(k)
            /\ \A r \in Slots :
                (Answers(r, "validate") /\ req[r].body.license_key = k) =>
                    ~IsValid(response'.body)]_vars

\* C18 as amended: once the UPDATE of an admin disable has been executed on a
\* license, its status is never ACTIVE again, and every validate that reads the
\* license from then on is rejected as inactive with 403, creates or refreshes
\* no binding and updates no last_check.
C18_RevocationForLaterReads ==
    [][/\ \A k \in Keys :
            /\ Revoked(k) => Revoked(k)'
            /\ \A l \in SelectLicense(k)' : l.reason # Null => l.status # "ACTIVE"
       /\ \A r \in Slots :
            /\ (Starts(r, "validate") /\ Revoked(req'[r].body.license_key)) =>
                    /\ req'[r].pc = "logInactive"
                    /\ req'[r].license.status # "ACTIVE"
            /\ (req[r].pc = "logInactive" /\ req'[r] # req[r]) =>
                    /\ response'.code = 403
                    /\ ~IsValid(response'.body)
                    /\ UNCHANGED <<licenses, license_servers>>]_vars

\* a server that was bound while the license was ACTIVE has been rejected with
\* status DISABLED by a validate that read the license after the disable
C18_Witness ==
    /\ response.op = "validate"
    /\ response.code = 403
    /\ HasStatus(response.body, "DISABLED")
    /\ DisableCompleted(response.request.license_key)
    /\ Bound(response.request.license_key, response.request.server_id)
====
